---- MODULE Spec2Model ----
(***************************************************************************)
(* Distributed task queue over Redis (broker.py, worker.py, master.py,     *)
(* client.py, models.py).                                                  *)
(*                                                                         *)
(* The store is modelled at the level of single Redis commands, each of    *)
(* which is atomic: LPUSH, BLMOVE .. RIGHT LEFT, LREM .. 1, RPOPLPUSH,     *)
(* SET .. EX, EXISTS, KEYS.  A list is a sequence whose index 1 is its     *)
(* LEFT end.  A key name is the sequence of its ":"-separated segments, so *)
(* "queue:processing:W1" is <<"queue", "processing", "W1">>.  Time is      *)
(* counted in ticks; every timer holds the ticks that remain.              *)
(***************************************************************************)
EXTENDS Integers, Sequences, FiniteSets, TLC

\* ------------------------------------------------------------------ bounds

\* The count argument of send_tasks: how many tasks the producer submits.
MaxTasks == 2

\* How many worker processes are launched over a run (all identities).
MaxStarts == 2

\* set_heartbeat calls are counted up to this many.
MaxCalls == 2

\* The entries a test driver puts into the queues.
MaxEntries == 3

\* The ttl arguments a test driver gives set_heartbeat: 1 .. MaxTtl.
MaxTtl == 2

\* ------------------------------------------------------- program constants

\* Ticks per second.  Every duration of the program is a whole number of
\* seconds but IDLE_SLEEP and SEND_INTERVAL, half a second each, which take
\* one tick.
TicksPerSecond == 1

HEARTBEAT_INTERVAL == 2 * TicksPerSecond

\* A time to live no longer than a tick interval and one blocking fetch.
ShortTtl == (2 + 1) * TicksPerSecond

HEARTBEAT_TTL == 5 * TicksPerSecond

IDLE_SLEEP == (TicksPerSecond + 1) \div 2

FETCH_TIMEOUT == 1 * TicksPerSecond

EXECUTE_SLEEP == 3 * TicksPerSecond

POLL_INTERVAL == 3 * TicksPerSecond

SEND_INTERVAL == (TicksPerSecond + 1) \div 2

\* Python's None, as a BLMOVE reply, as the local `task`, and as the time of a
\* set_heartbeat that never happened.
NoReply == <<>>

NoTask == [payload |-> 0, task_id |-> 0, status |-> "None"]

Never == 0 - 1

\* The worker identities given on the command line (sys.argv[1]): "W1", the
\* default, and "h:W1", an identity that itself holds a ":".
WorkerIds == {<<"W1">>, <<"h", "W1">>}

PENDING_QUEUE == <<"queue", "pending">>

processing_queue(worker_id) == <<"queue", "processing">> \o worker_id

heartbeat_key(worker_id) == <<"worker", "heartbeat">> \o worker_id

ListKeys == {PENDING_QUEUE} \cup {processing_queue(w) : w \in WorkerIds}

HeartbeatKeys == {heartbeat_key(w) : w \in WorkerIds}

\* ------------------------------------------------------------ Task records

\* Task(payload=build_payload(index)): task_id is a fresh uuid4, one per
\* construction; the payload carries data_id = 100 + index.
NewTask(index) == [payload |-> 100 + index, task_id |-> index + 1, status |-> "pending"]

\* json.dumps(asdict(self)): the fields in declaration order.
to_json(task) == <<"payload", task.payload, "task_id", task.task_id, "status", task.status>>

\* cls(**json.loads(data))
from_json(data) == [payload |-> data[2], task_id |-> data[4], status |-> data[6]]

TaskIds == 1 .. MaxTasks

VARIABLES
    \* ---- the Redis store
    lists,        \* key -> list (an absent key is the empty list)
    expiry,       \* heartbeat key -> ticks until the key expires, 0: absent
    blocked,      \* worker identities blocked in BLMOVE, the oldest first
    reply,        \* worker identity -> the value BLMOVE unblocked it with
    \* ---- worker processes, one at a time per identity
    up,           \* identity -> a process runs under it
    running,      \* Worker._running
    hbPc,         \* _heartbeat_loop: "off", "loop", "done", "failed"
    hbTimer,      \* asyncio.sleep(HEARTBEAT_INTERVAL), ticks left
    tPc,          \* _process_tasks: "off","new","fetch","blocked","exec","idle","done"
    tTimer,       \* the sleep or the BLMOVE timeout, ticks left
    task,         \* the local `task` of _process_tasks
    starts,       \* processes launched so far
    \* ---- master
    mPc,          \* "sleep", "check", "requeue"
    mTimer,       \* time.sleep(POLL_INTERVAL), ticks left
    active,       \* active_workers still to visit in _check_workers
    requeued,     \* the local `requeued` of requeue_orphaned_tasks
    recovered,    \* the last "Recovery complete." record: <<worker_id, count>>
    \* ---- client
    sent,         \* tasks submitted so far
    cTimer,       \* time.sleep(SEND_INTERVAL), ticks left
    \* ---- log records
    completed,    \* task_id -> "Task completed" records (complete_task calls)
    removed,      \* task_id -> entries LREM removed for it
    doneLog,      \* task_id -> "Task done" records
    hbSince,      \* identity -> ticks since the last set_heartbeat, Never: not yet
    hbTtl,        \* identity -> the ttl of the last set_heartbeat
    hbCalls,      \* identity -> set_heartbeat calls so far, up to MaxCalls
    beat,         \* identity -> set_heartbeat was called since the last launch
    orphaned,     \* the dead workers holding one task when the sweep began
    swept,        \* the task_ids of the entries a recovery sweep moved back
    call          \* the broker call a test driver made last, and its result

storeVars == <<lists, expiry, blocked, reply>>

workerVars == <<up, running, hbPc, hbTimer, tPc, tTimer, task, starts>>

masterVars == <<mPc, mTimer, active, requeued, recovered>>

clientVars == <<sent, cTimer>>

logVars == <<completed, removed, doneLog>>

hbVars == <<hbSince, hbTtl, hbCalls, beat>>

auxVars == <<hbVars, orphaned, swept, call>>

vars == <<storeVars, workerVars, masterVars, clientVars, logVars, auxVars>>

\* ----------------------------------------------------------- Redis commands

Pending == lists[PENDING_QUEUE]

Processing(w) == lists[processing_queue(w)]

Last(q) == q[Len(q)]

Front(q) == SubSeq(q, 1, Len(q) - 1)

\* The number of entries of q equal to v.
RECURSIVE Count(_, _)
Count(q, v) ==
    IF q = <<>> THEN 0
    ELSE (IF Head(q) = v THEN 1 ELSE 0) + Count(Tail(q), v)

\* An acknowledgement whose value matches no entry (a serialization that
\* differs from the stored one): nothing is removed.
LRemNone(q, v) == q

\* LREM key 0 value: the list without any entry equal to v.
LRemAll(q, v) == SelectSeq(q, LAMBDA x : x # v)

\* LREM key 1 value: the list without its first (leftmost) entry equal to v.
RECURSIVE LRem(_, _)
LRem(q, v) ==
    IF q = <<>> THEN <<>>
    ELSE IF Head(q) = v THEN Tail(q)
    ELSE <<Head(q)>> \o LRem(Tail(q), v)

\* RPUSH in place of LPUSH: the value goes on to the RIGHT end of the pending
\* queue, the end that fetches take from.
RPushPending(ls, bl, rp, v) ==
    [lists |-> [ls EXCEPT ![PENDING_QUEUE] = @ \o <<v>>], blocked |-> bl, reply |-> rp]

\* LPUSH onto the pending queue.  A client blocked in BLMOVE on the pending
\* queue is served by the push itself, the longest waiting first: the value
\* goes on to the LEFT of that client's processing queue.
LPushPending(ls, bl, rp, v) ==
    IF bl = <<>>
    THEN [lists |-> [ls EXCEPT ![PENDING_QUEUE] = <<v>> \o @],
          blocked |-> bl,
          reply |-> rp]
    ELSE [lists |-> [ls EXCEPT ![processing_queue(Head(bl))] = <<v>> \o @],
          blocked |-> Tail(bl),
          reply |-> [rp EXCEPT ![Head(bl)] = v]]

\* A fetch that reads the entry and pushes it without taking it off the
\* pending queue (LINDEX and LPUSH in place of BLMOVE).
BLMoveCopy(ls, worker_id) ==
    [ls EXCEPT ![processing_queue(worker_id)] = <<Last(ls[PENDING_QUEUE])>> \o @]

\* A fetch that takes the entry at the LEFT end of the pending queue, the one
\* pushed last (BLMOVE .. LEFT LEFT).
BLMoveLeft(ls, worker_id) ==
    [ls EXCEPT ![PENDING_QUEUE] = Tail(@),
               ![processing_queue(worker_id)] = <<Head(ls[PENDING_QUEUE])>> \o @]

\* BLMOVE queue:pending queue:processing:<id> RIGHT LEFT, with an entry to
\* move: off the RIGHT end of the pending queue, on to the LEFT end of the
\* processing queue, in one step.
BLMove(ls, worker_id) ==
    [ls EXCEPT ![PENDING_QUEUE] = Front(@),
               ![processing_queue(worker_id)] = <<Last(ls[PENDING_QUEUE])>> \o @]

\* A recovery step that pushes the entry without popping it (LINDEX and LPUSH
\* in place of RPOPLPUSH).
RPopLPushKeep(ls, bl, rp, key) == LPushPending(ls, bl, rp, Last(ls[key]))

\* A recovery step that takes the entry off the LEFT end of the list at key.
LPopLPush(ls, bl, rp, key) ==
    LPushPending([ls EXCEPT ![key] = Tail(@)], bl, rp, Head(ls[key]))

\* RPOPLPUSH <key> queue:pending, with an entry to move: off the RIGHT end of
\* the list at key, on to the LEFT end of the pending queue, in one step.
RPopLPush(ls, bl, rp, key) ==
    LPushPending([ls EXCEPT ![key] = Front(@)], bl, rp, Last(ls[key]))

\* A sequence without the entries equal to w.
Without(q, w) == SelectSeq(q, LAMBDA x : x # w)

InSeq(q, w) == \E i \in 1 .. Len(q) : q[i] = w

\* No broker call made by a test driver yet.
NoCall == [op |-> "none", worker |-> <<>>, task |-> NoTask, before |-> <<>>, prior |-> Never]

TypeOK ==
    /\ DOMAIN lists = ListKeys
    /\ DOMAIN expiry = HeartbeatKeys
    /\ \A k \in HeartbeatKeys : expiry[k] \in 0 .. HEARTBEAT_TTL
    /\ sent \in 0 .. MaxTasks
    /\ starts \in 0 .. MaxStarts

Init ==
    /\ lists = [k \in ListKeys |-> <<>>]
    /\ expiry = [k \in HeartbeatKeys |-> 0]
    /\ blocked = <<>>
    /\ reply = [w \in WorkerIds |-> NoReply]
    /\ up = [w \in WorkerIds |-> FALSE]
    /\ running = [w \in WorkerIds |-> FALSE]
    /\ hbPc = [w \in WorkerIds |-> "off"]
    /\ hbTimer = [w \in WorkerIds |-> 0]
    /\ tPc = [w \in WorkerIds |-> "off"]
    /\ tTimer = [w \in WorkerIds |-> 0]
    /\ task = [w \in WorkerIds |-> NoTask]
    /\ starts = 0
    /\ mPc = "sleep"
    /\ mTimer = 0
    /\ active = <<>>
    /\ requeued = 0
    /\ recovered = <<>>
    /\ sent = 0
    /\ cTimer = 0
    /\ completed = [i \in TaskIds |-> 0]
    /\ removed = [i \in TaskIds |-> 0]
    /\ doneLog = [i \in TaskIds |-> 0]
    /\ hbSince = [w \in WorkerIds |-> Never]
    /\ hbTtl = [w \in WorkerIds |-> 0]
    /\ hbCalls = [w \in WorkerIds |-> 0]
    /\ beat = [w \in WorkerIds |-> FALSE]
    /\ orphaned = {}
    /\ swept = {}
    /\ call = NoCall

\* ------------------------------------------------------------------ client

\* send_tasks: one iteration of the loop, push_task(Task(...)) and then
\* time.sleep(SEND_INTERVAL).
push_task ==
    /\ sent < MaxTasks
    /\ cTimer = 0
    /\ LET st == LPushPending(lists, blocked, reply, to_json(NewTask(sent)))
       IN  /\ lists' = st.lists
           /\ blocked' = st.blocked
           /\ reply' = st.reply
    /\ sent' = sent + 1
    /\ cTimer' = SEND_INTERVAL
    /\ UNCHANGED <<expiry, workerVars, masterVars, logVars, auxVars>>

\* ------------------------------------------------------------------ broker

\* set_heartbeat: SET worker:heartbeat:<id> "ALIVE" EX ttl.
set_heartbeat_nx(ex, worker_id, ttl) ==
    [ex EXCEPT ![heartbeat_key(worker_id)] = IF @ > 0 THEN @ ELSE ttl]

\* set_heartbeat: SET worker:heartbeat:<id> ALIVE EX ttl.
set_heartbeat(ex, worker_id, ttl) == [ex EXCEPT ![heartbeat_key(worker_id)] = ttl]

\* is_worker_alive: EXISTS worker:heartbeat:<id>.
is_worker_alive(ex, worker_id) ==
    /\ heartbeat_key(worker_id) \in DOMAIN ex
    /\ ex[heartbeat_key(worker_id)] > 0

\* All the orders in which a set can be listed.
Orders(S) ==
    {f \in [1 .. Cardinality(S) -> S] : \A i, j \in 1 .. Cardinality(S) : f[i] = f[j] => i = j}

\* k.split(":")[-1]
IdOfKey(k) == <<Last(k)>>

\* KEYS queue:processing:* : Redis keeps no empty list, and lists the keys in
\* no particular order.
ProcessingKeys(ls) ==
    {k \in DOMAIN ls : /\ ls[k] # <<>>
                       /\ Len(k) >= 3
                       /\ SubSeq(k, 1, 2) = <<"queue", "processing">>}

\* get_all_processing_workers: the possible results.
get_all_processing_workers(ls) ==
    {[i \in DOMAIN f |-> IdOfKey(f[i])] : f \in Orders(ProcessingKeys(ls))}

\* The list a key names; a key the store does not hold is the empty list.
ListAt(ls, k) == IF k \in DOMAIN ls THEN ls[k] ELSE <<>>

\* An acknowledgement that removes the value from every processing queue.
complete_anywhere(ls, worker_id, t) ==
    [k \in DOMAIN ls |-> IF k = PENDING_QUEUE THEN ls[k] ELSE LRem(ls[k], to_json(t))]

\* complete_task: LREM queue:processing:<id> 1 <the task's serialized value>.
complete(ls, worker_id, t) ==
    [ls EXCEPT ![processing_queue(worker_id)] = LRem(@, to_json(t))]

\* ------------------------------------------------------------------ worker

\* The event loop of w is not inside a synchronous call of _process_tasks.
LoopFree(w) == tPc[w] \notin {"fetch", "blocked"}

\* The process of w ends: its local state is gone and the store closes its
\* connection, which unblocks a BLMOVE it was waiting in.
Terminate(w) ==
    /\ up' = [up EXCEPT ![w] = FALSE]
    /\ running' = [running EXCEPT ![w] = FALSE]
    /\ hbPc' = [hbPc EXCEPT ![w] = "off"]
    /\ hbTimer' = [hbTimer EXCEPT ![w] = 0]
    /\ tPc' = [tPc EXCEPT ![w] = "off"]
    /\ tTimer' = [tTimer EXCEPT ![w] = 0]
    /\ task' = [task EXCEPT ![w] = NoTask]
    /\ blocked' = Without(blocked, w)
    /\ reply' = [reply EXCEPT ![w] = NoReply]

\* _process_tasks scheduled ahead of the heartbeat loop: it starts at once.
ScheduledFirst == "fetch"

\* asyncio.gather(self._heartbeat_loop(), self._process_tasks()): the first
\* step of _process_tasks comes after the first step of the heartbeat loop.
Scheduled == "new"

\* Worker.start up to asyncio.gather: both coroutines are scheduled, the
\* heartbeat loop first.
start(w) ==
    /\ ~up[w]
    /\ starts < MaxStarts
    /\ starts' = starts + 1
    /\ up' = [up EXCEPT ![w] = TRUE]
    /\ running' = [running EXCEPT ![w] = TRUE]
    /\ hbPc' = [hbPc EXCEPT ![w] = "loop"]
    /\ hbTimer' = [hbTimer EXCEPT ![w] = 0]
    /\ tPc' = [tPc EXCEPT ![w] = Scheduled]
    /\ tTimer' = [tTimer EXCEPT ![w] = 0]
    /\ task' = [task EXCEPT ![w] = NoTask]
    /\ orphaned' = orphaned \ {w}
    /\ beat' = [beat EXCEPT ![w] = FALSE]
    /\ UNCHANGED <<hbSince, hbTtl, hbCalls>>
    /\ UNCHANGED <<storeVars, masterVars, clientVars, logVars, swept, call>>

\* Worker.stop
stop(w) ==
    /\ up[w]
    /\ running[w]
    /\ running' = [running EXCEPT ![w] = FALSE]
    /\ UNCHANGED <<up, hbPc, hbTimer, tPc, tTimer, task, starts>>
    /\ UNCHANGED <<storeVars, masterVars, clientVars, logVars, auxVars>>

\* The process is killed (or interrupted: asyncio.run cancels both loops).
crash(w) ==
    /\ up[w]
    /\ Terminate(w)
    /\ UNCHANGED <<lists, expiry, starts, masterVars, clientVars, logVars, auxVars>>

\* A set_heartbeat call, and what the records keep of it.
Beat(w, ttl) ==
    /\ expiry' = set_heartbeat(expiry, w, ttl)
    /\ hbSince' = [hbSince EXCEPT ![w] = 0]
    /\ hbTtl' = [hbTtl EXCEPT ![w] = ttl]
    /\ hbCalls' = [hbCalls EXCEPT ![w] = IF @ < MaxCalls THEN @ + 1 ELSE @]
    /\ beat' = [beat EXCEPT ![w] = TRUE]

\* The first step of _process_tasks follows the first step of the heartbeat
\* loop, in the order asyncio.gather scheduled them.
AfterHeartbeatStep(pc) == IF pc = "new" THEN "fetch" ELSE pc

\* A loop that never tests the flag (`while True`).
LoopTestTrue(w) == TRUE

\* `while self._running`, the test of both loops.
LoopTest(w) == running[w]

HeartbeatDue(w) ==
    /\ up[w]
    /\ hbPc[w] = "loop"
    /\ hbTimer[w] = 0
    /\ LoopFree(w)

\* _heartbeat_loop: one iteration, or the end of the loop when stopped.
heartbeat_loop(w) ==
    /\ HeartbeatDue(w)
    /\ IF LoopTest(w)
       THEN /\ Beat(w, HEARTBEAT_TTL)
            /\ hbTimer' = [hbTimer EXCEPT ![w] = HEARTBEAT_INTERVAL]
            /\ UNCHANGED hbPc
       ELSE /\ hbPc' = [hbPc EXCEPT ![w] = "done"]
            /\ UNCHANGED <<expiry, hbVars, hbTimer>>
    /\ tPc' = [tPc EXCEPT ![w] = AfterHeartbeatStep(@)]
    /\ UNCHANGED <<up, running, tTimer, task, starts>>
    /\ UNCHANGED <<lists, blocked, reply, masterVars, clientVars, logVars, orphaned, swept, call>>

\* _heartbeat_loop: set_heartbeat raises a store error.  Nothing catches it:
\* the coroutine ends with the exception and asyncio.gather hands it on.
heartbeat_error(w) ==
    /\ HeartbeatDue(w)
    /\ running[w]
    /\ hbPc' = [hbPc EXCEPT ![w] = "failed"]
    /\ tPc' = [tPc EXCEPT ![w] = AfterHeartbeatStep(@)]
    /\ beat' = [beat EXCEPT ![w] = TRUE]
    /\ UNCHANGED <<up, running, hbTimer, tTimer, task, starts>>
    /\ UNCHANGED <<hbSince, hbTtl, hbCalls, orphaned, swept, call>>
    /\ UNCHANGED <<storeVars, masterVars, clientVars, logVars>>

\* The exception of the heartbeat loop reaches Worker.start and asyncio.run,
\* which cancels _process_tasks at its await and ends the process.
die(w) ==
    /\ up[w]
    /\ hbPc[w] = "failed"
    /\ LoopFree(w)
    /\ Terminate(w)
    /\ UNCHANGED <<lists, expiry, starts, masterVars, clientVars, logVars, auxVars>>

\* Both loops have ended: asyncio.gather and Worker.start return.
finish(w) ==
    /\ up[w]
    /\ hbPc[w] = "done"
    /\ tPc[w] = "done"
    /\ Terminate(w)
    /\ UNCHANGED <<lists, expiry, starts, masterVars, clientVars, logVars, auxVars>>

\* fetch_task returned a Task: _process_tasks logs it and awaits _execute.
Received(w, data) ==
    /\ task' = [task EXCEPT ![w] = from_json(data)]
    /\ tPc' = [tPc EXCEPT ![w] = "exec"]
    /\ tTimer' = [tTimer EXCEPT ![w] = EXECUTE_SLEEP]

\* _process_tasks: the loop test and fetch_task's BLMOVE.
fetch_task(w) ==
    /\ up[w]
    /\ \/ tPc[w] = "fetch"
       \/ tPc[w] = "idle" /\ tTimer[w] = 0
    /\ IF ~LoopTest(w)
       THEN /\ tPc' = [tPc EXCEPT ![w] = "done"]
            /\ UNCHANGED <<storeVars, tTimer, task>>
       ELSE IF Pending # <<>>
       THEN /\ lists' = BLMove(lists, w)
            /\ Received(w, Last(Pending))
            /\ UNCHANGED <<expiry, blocked, reply>>
       ELSE /\ blocked' = Append(blocked, w)
            /\ tPc' = [tPc EXCEPT ![w] = "blocked"]
            /\ tTimer' = [tTimer EXCEPT ![w] = FETCH_TIMEOUT]
            /\ UNCHANGED <<lists, expiry, reply, task>>
    /\ UNCHANGED <<up, running, hbPc, hbTimer, starts>>
    /\ UNCHANGED <<masterVars, clientVars, logVars, auxVars>>

\* BLMOVE returns the value a push served it with.
fetch_served(w) ==
    /\ up[w]
    /\ tPc[w] = "blocked"
    /\ reply[w] # NoReply
    /\ Received(w, reply[w])
    /\ reply' = [reply EXCEPT ![w] = NoReply]
    /\ UNCHANGED <<up, running, hbPc, hbTimer, starts>>
    /\ UNCHANGED <<lists, expiry, blocked, masterVars, clientVars, logVars, auxVars>>

\* BLMOVE times out: fetch_task returns None and the loop sleeps IDLE_SLEEP.
fetch_timeout(w) ==
    /\ up[w]
    /\ tPc[w] = "blocked"
    /\ reply[w] = NoReply
    /\ tTimer[w] = 0
    /\ blocked' = Without(blocked, w)
    /\ tPc' = [tPc EXCEPT ![w] = "idle"]
    /\ tTimer' = [tTimer EXCEPT ![w] = IDLE_SLEEP]
    /\ UNCHANGED <<up, running, hbPc, hbTimer, task, starts>>
    /\ UNCHANGED <<lists, expiry, reply, masterVars, clientVars, logVars, auxVars>>

\* _process_tasks after _execute: complete_task (LREM .. 1) and the two log
\* records, "Task completed" and "Task done".
complete_task(w) ==
    /\ up[w]
    /\ tPc[w] = "exec"
    /\ tTimer[w] = 0
    /\ LET data == to_json(task[w])
           id == task[w].task_id
       IN  /\ lists' = complete(lists, w, task[w])
           /\ completed' = [completed EXCEPT ![id] = @ + 1]
           /\ removed' = [removed EXCEPT ![id] = @ + Count(Processing(w), data)
                                                   - Count(LRem(Processing(w), data), data)]
           /\ doneLog' = [doneLog EXCEPT ![id] = @ + 1]
    /\ tPc' = [tPc EXCEPT ![w] = "fetch"]
    /\ task' = [task EXCEPT ![w] = NoTask]
    /\ UNCHANGED <<up, running, hbPc, hbTimer, tTimer, starts>>
    /\ UNCHANGED <<expiry, blocked, reply, masterVars, clientVars, auxVars>>

\* ------------------------------------------------------------------ master

\* _check_workers goes on to the rest of active_workers, or returns and run
\* sleeps POLL_INTERVAL.
Visit(rest) ==
    /\ active' = rest
    /\ mPc' = IF rest = <<>> THEN "sleep" ELSE "check"
    /\ mTimer' = IF rest = <<>> THEN POLL_INTERVAL ELSE 0

\* _check_workers: get_all_processing_workers.
check_workers ==
    /\ mPc = "sleep"
    /\ mTimer = 0
    /\ \E result \in get_all_processing_workers(lists) : Visit(result)
    /\ orphaned' = {w \in WorkerIds : /\ ~up[w]
                                       /\ ~is_worker_alive(expiry, w)
                                       /\ Len(Processing(w)) = 1}
    /\ UNCHANGED <<requeued, recovered>>
    /\ UNCHANGED <<storeVars, workerVars, clientVars, logVars, hbVars, swept, call>>

\* _check_workers: is_worker_alive for the next of active_workers.
check_alive ==
    /\ mPc = "check"
    /\ IF is_worker_alive(expiry, Head(active))
       THEN /\ Visit(Tail(active))
            /\ UNCHANGED requeued
       ELSE /\ mPc' = "requeue"
            /\ requeued' = 0
            /\ UNCHANGED <<active, mTimer>>
    /\ UNCHANGED recovered
    /\ UNCHANGED <<storeVars, workerVars, clientVars, logVars, auxVars>>

\* A loop that counts before it tests the reply.
CountedAlways(n, task_data) == n + 1

\* requeue_orphaned_tasks: `if not task_data: break` and then `requeued += 1`.
Counted(n, task_data) == IF task_data = NoReply THEN n ELSE n + 1

\* requeue_orphaned_tasks: one RPOPLPUSH of its loop; on an empty reply the
\* loop ends and the count is returned and logged.
requeue_orphaned_tasks ==
    /\ mPc = "requeue"
    /\ LET key == processing_queue(Head(active))
           src == ListAt(lists, key)
       IN  IF src # <<>>
           THEN /\ LET st == RPopLPush(lists, blocked, reply, key)
                   IN  /\ lists' = st.lists
                       /\ blocked' = st.blocked
                       /\ reply' = st.reply
                /\ requeued' = Counted(requeued, Last(src))
                /\ swept' = swept \cup {from_json(Last(src)).task_id}
                /\ UNCHANGED <<mPc, mTimer, active, recovered>>
           ELSE /\ recovered' = <<Head(active), Counted(requeued, NoReply)>>
                /\ requeued' = 0
                /\ Visit(Tail(active))
                /\ UNCHANGED <<lists, blocked, reply, swept>>
    /\ UNCHANGED <<expiry, workerVars, clientVars, logVars, hbVars, orphaned, call>>

\* -------------------------------------------------------------------- time

Dec(n) == IF n > 0 THEN n - 1 ELSE 0

Min(a, b) == IF a < b THEN a ELSE b

\* n ticks of the store's clock: the time to live of every key runs down.
\* The records count the ticks since the last set_heartbeat up to its ttl.
Elapse(n) ==
    /\ expiry' = [k \in DOMAIN expiry |-> expiry[k] - Min(n, expiry[k])]
    /\ hbSince' = [w \in WorkerIds |->
                      IF hbSince[w] = Never THEN Never
                      ELSE Min(hbSince[w] + n, hbTtl[w])]
    /\ UNCHANGED <<hbTtl, hbCalls, beat>>

\* No process has a step to take at the present instant.
Quiet ==
    /\ \A w \in WorkerIds : up[w] =>
          /\ tPc[w] \notin {"new", "fetch"}
          /\ tPc[w] = "blocked" => tTimer[w] > 0 /\ reply[w] = NoReply
          /\ tPc[w] \in {"exec", "idle"} => tTimer[w] > 0
          /\ hbPc[w] = "loop" => hbTimer[w] > 0 \/ ~LoopFree(w)
          /\ hbPc[w] = "failed" => ~LoopFree(w)
          /\ ~(hbPc[w] = "done" /\ tPc[w] = "done")
    /\ mPc = "sleep" /\ mTimer > 0
    /\ sent = MaxTasks \/ cTimer > 0

\* One tick passes: every sleep and timeout runs down, and so does the time
\* to live of every heartbeat key.
tick ==
    /\ Quiet
    /\ Elapse(1)
    /\ hbTimer' = [w \in WorkerIds |-> Dec(hbTimer[w])]
    /\ tTimer' = [w \in WorkerIds |-> Dec(tTimer[w])]
    /\ mTimer' = Dec(mTimer)
    /\ cTimer' = Dec(cTimer)
    /\ UNCHANGED <<lists, blocked, reply, up, running, hbPc, tPc, task, starts>>
    /\ UNCHANGED <<mPc, active, requeued, recovered, sent, logVars, orphaned, swept, call>>

Next ==
    \/ push_task
    \/ \E w \in WorkerIds : start(w)
    \/ \E w \in WorkerIds : crash(w)
    \/ \E w \in WorkerIds : heartbeat_loop(w)
    \/ \E w \in WorkerIds : fetch_task(w)
    \/ \E w \in WorkerIds : fetch_served(w)
    \/ \E w \in WorkerIds : fetch_timeout(w)
    \/ \E w \in WorkerIds : complete_task(w)
    \/ check_workers
    \/ check_alive
    \/ requeue_orphaned_tasks
    \/ tick

Spec == Init /\ [][Next]_vars

\* The steps the processes take by themselves, and the passing of time; a
\* launch and a kill come from outside.
Progress ==
    \/ push_task
    \/ \E w \in WorkerIds : heartbeat_loop(w)
    \/ \E w \in WorkerIds : fetch_task(w)
    \/ \E w \in WorkerIds : fetch_served(w)
    \/ \E w \in WorkerIds : fetch_timeout(w)
    \/ \E w \in WorkerIds : complete_task(w)
    \/ check_workers
    \/ check_alive
    \/ requeue_orphaned_tasks
    \/ tick

\* The system with every running process, the monitor among them, taking its
\* steps and time passing; workers are launched and killed at any moment.
SpecFair == Init /\ [][Next]_vars /\ WF_vars(Progress)

\* The system with the ways a worker ends other than being killed: a store
\* error in its heartbeat loop, and Worker.stop.
NextLife ==
    \/ Next
    \/ \E w \in WorkerIds : stop(w)
    \/ \E w \in WorkerIds : heartbeat_error(w)
    \/ \E w \in WorkerIds : die(w)
    \/ \E w \in WorkerIds : finish(w)

SpecLife == Init /\ [][NextLife]_vars

\* One worker that is started once and never killed, stopped or failed by
\* the store, with the client and the master.
NextRun ==
    \/ push_task
    \/ \E w \in WorkerIds : starts = 0 /\ start(w)
    \/ \E w \in WorkerIds : heartbeat_loop(w)
    \/ \E w \in WorkerIds : fetch_task(w)
    \/ \E w \in WorkerIds : fetch_served(w)
    \/ \E w \in WorkerIds : fetch_timeout(w)
    \/ \E w \in WorkerIds : complete_task(w)
    \/ check_workers
    \/ check_alive
    \/ requeue_orphaned_tasks
    \/ tick

\* The worker is started, every process takes the steps it has, and time
\* passes.
SpecRun ==
    /\ Init
    /\ [][NextRun]_vars
    /\ WF_vars(NextRun)
    /\ WF_vars(\E w \in WorkerIds : starts = 0 /\ start(w))

\* One worker that is started once and may be told to stop (Worker.stop) at
\* any moment, with the client and the master; it is never killed.
NextStop ==
    \/ NextRun
    \/ \E w \in WorkerIds : stop(w)
    \/ \E w \in WorkerIds : finish(w)

SpecStop ==
    /\ Init
    /\ [][NextStop]_vars
    /\ WF_vars(NextRun \/ \E w \in WorkerIds : finish(w))
    /\ WF_vars(\E w \in WorkerIds : starts = 0 /\ start(w))

\* ------------------------------------------------------------ test driver

\* A test driver calls the broker's methods one after the other, each call
\* returning before the next is made; no worker, master or client runs.

\* The tasks the driver holds; it may submit the same task more than once.
TestTasks == {NewTask(i) : i \in 0 .. 1}

\* The entries in all the lists.
RECURSIVE Entries(_)
Entries(K) ==
    IF K = {} THEN 0
    ELSE LET k == CHOOSE x \in K : TRUE
         IN  Len(lists[k]) + Entries(K \ {k})

Idle == mPc = "sleep"

\* The record of a call: its arguments and the lists as it found them.
Called(op, w, t) ==
    call' = [op |-> op, worker |-> w, task |-> t, before |-> lists, prior |-> Never]

call_push_task(t) ==
    /\ Idle
    /\ Entries(ListKeys) < MaxEntries
    /\ lists' = LPushPending(lists, blocked, reply, to_json(t)).lists
    /\ Called("push_task", <<>>, t)
    /\ UNCHANGED <<expiry, blocked, reply, workerVars, masterVars, clientVars, logVars>>
    /\ UNCHANGED <<hbVars, orphaned, swept>>

\* fetch_task with nothing pending blocks for the timeout and returns None;
\* the record keeps what the call returned.
call_fetch_task(w) ==
    /\ Idle
    /\ IF Pending # <<>>
       THEN /\ lists' = BLMove(lists, w)
            /\ UNCHANGED <<expiry, hbVars>>
       ELSE /\ Elapse(FETCH_TIMEOUT)
            /\ UNCHANGED lists
    /\ Called("fetch_task", w, IF Pending # <<>> THEN from_json(Last(Pending)) ELSE NoTask)
    /\ UNCHANGED <<blocked, reply, workerVars, masterVars, clientVars, logVars, orphaned, swept>>

call_complete_task(w, t) ==
    /\ Idle
    /\ lists' = complete(lists, w, t)
    /\ Called("complete_task", w, t)
    /\ UNCHANGED <<expiry, blocked, reply, workerVars, masterVars, clientVars, logVars>>
    /\ UNCHANGED <<hbVars, orphaned, swept>>

call_set_heartbeat(w, ttl) ==
    /\ Idle
    /\ Beat(w, ttl)
    /\ Called("set_heartbeat", w, NoTask)
    /\ UNCHANGED <<lists, blocked, reply, workerVars, masterVars, clientVars, logVars>>
    /\ UNCHANGED <<orphaned, swept>>

\* The driver enters requeue_orphaned_tasks(w); the steps of its loop and its
\* return are those of requeue_orphaned_tasks above.  The record keeps the
\* count returned by a call for the same worker made just before this one.
call_requeue_orphaned_tasks(w) ==
    /\ Idle
    /\ mPc' = "requeue"
    /\ active' = <<w>>
    /\ requeued' = 0
    /\ call' = [op |-> "requeue_orphaned_tasks", worker |-> w, task |-> NoTask,
                before |-> lists,
                prior |-> IF call.op = "requeue_orphaned_tasks" /\ call.worker = w
                          THEN recovered[2] ELSE Never]
    /\ UNCHANGED <<mTimer, recovered>>
    /\ UNCHANGED <<storeVars, workerVars, clientVars, logVars, hbVars, orphaned, swept>>

\* The driver waits for one tick.
call_sleep ==
    /\ Idle
    /\ Elapse(1)
    /\ Called("sleep", <<>>, NoTask)
    /\ UNCHANGED <<lists, blocked, reply, workerVars, masterVars, clientVars, logVars>>
    /\ UNCHANGED <<orphaned, swept>>

\* The queue operations, called in any order with any arguments.
NextQueues ==
    \/ \E t \in TestTasks : call_push_task(t)
    \/ \E w \in WorkerIds : call_fetch_task(w)
    \/ \E w \in WorkerIds, t \in TestTasks : call_complete_task(w, t)
    \/ \E w \in WorkerIds : call_requeue_orphaned_tasks(w)
    \/ requeue_orphaned_tasks

\* The thread inside requeue_orphaned_tasks goes on running its loop.
SpecQueues == Init /\ [][NextQueues]_vars /\ WF_vars(requeue_orphaned_tasks)

\* The liveness key operations and the passing of time, in any order.
NextHeartbeat ==
    \/ \E w \in WorkerIds, ttl \in 1 .. MaxTtl : call_set_heartbeat(w, ttl)
    \/ \E w \in WorkerIds : call_fetch_task(w)
    \/ call_sleep

SpecHeartbeat == Init /\ [][NextHeartbeat]_vars

\* ------------------------------------------------------------ the claims

\* The serialized value of the i-th task the client submitted.
Submitted(i) == to_json(NewTask(i - 1))

\* How many entries equal to v the lists at the keys of K hold in all.
RECURSIVE Occurrences(_, _)
Occurrences(K, v) ==
    IF K = {} THEN 0
    ELSE LET k == CHOOSE x \in K : TRUE
         IN  Count(lists[k], v) + Occurrences(K \ {k}, v)

\* The keys whose list holds v.
Holders(v) == {k \in ListKeys : Count(lists[k], v) > 0}

C2_AtMostOneQueue ==
    \A i \in 1 .. sent : Cardinality(Holders(Submitted(i))) <= 1

\* C2's case: the tasks are spread over the pending queue and the processing
\* queues of two workers, one of them moved back by a recovery sweep.
C2_Witness ==
    /\ Pending # <<>>
    /\ \E w \in WorkerIds : Processing(w) # <<>>
    /\ requeued > 0

\* C8: get_all_processing_workers returns exactly the identities whose
\* processing queue is not empty.
C8_ListsBusyWorkers ==
    \A result \in get_all_processing_workers(lists) :
        \A w \in WorkerIds : InSeq(result, w) <=> Processing(w) # <<>>

\* C6: after the sweep that found a dead worker holding one task, that
\* worker's processing queue is empty.
C6_SweepEmptiesOrphan ==
    mPc = "sleep" => \A w \in orphaned : Processing(w) = <<>>

\* C9, as stated: the heartbeat loop of a worker that runs and was not
\* stopped is running, also after set_heartbeat raised a store error.
C9_HeartbeatLoopRunsUntilStopped ==
    \A w \in WorkerIds : up[w] /\ running[w] => hbPc[w] = "loop"

\* Every submitted task has one "Task done" record and no queue holds
\* anything.
RunDone ==
    /\ sent = MaxTasks
    /\ \A k \in ListKeys : lists[k] = <<>>
    /\ \A i \in 1 .. MaxTasks : doneLog[i] = 1

\* C10: with one worker that never crashes, the system reaches and stays in
\* a state where the pending queue and the processing queue are empty and
\* each of the N tasks has exactly one "Task done" record.
C10_AllDone == <>[]RunDone

\* C10's case: the worker has fetched, executed and acknowledged every task.
C10_Witness ==
    /\ RunDone
    /\ \E w \in WorkerIds : up[w] /\ hbCalls[w] >= 2

\* C3: complete_task(workerId, task) removes exactly one occurrence of the
\* task's serialized value from workerId's processing queue when it is there,
\* and otherwise changes no queue; either way it returns, and no other queue
\* changes.
C3_CompleteRemovesOne ==
    [][\A w \in WorkerIds, t \in TestTasks :
         call_complete_task(w, t) =>
           LET v == to_json(t)
               q == Processing(w)
           IN  /\ \A k \in ListKeys \ {processing_queue(w)} : lists'[k] = lists[k]
               /\ IF Count(q, v) > 0
                  THEN \E i \in 1 .. Len(q) :
                         /\ q[i] = v
                         /\ Processing(w)' = SubSeq(q, 1, i - 1) \o SubSeq(q, i + 1, Len(q))
                  ELSE Processing(w)' = q
               /\ call'.op = "complete_task"]_vars

\* C3's case: complete_task returned without a change for a value that a
\* recovery sweep had moved to the pending queue.
C3_Witness ==
    /\ call.op = "complete_task"
    /\ recovered # <<>>
    /\ recovered[2] > 0
    /\ InSeq(Pending, to_json(call.task))
    /\ ~InSeq(ListAt(call.before, processing_queue(call.worker)), to_json(call.task))
    /\ lists = call.before

\* C4: a requeue_orphaned_tasks call that found the processing queue empty, or
\* that followed a call for the same worker at once, returned 0 and left
\* every queue as it found it.
C4_IdempotentRecovery ==
    (/\ Idle
     /\ call.op = "requeue_orphaned_tasks"
     /\ \/ ListAt(call.before, processing_queue(call.worker)) = <<>>
        \/ call.prior # Never)
    => /\ recovered = <<call.worker, 0>>
       /\ lists = call.before

\* C4's case: the second of two calls in immediate succession has returned,
\* the first having moved entries.
C4_Witness ==
    /\ Idle
    /\ call.op = "requeue_orphaned_tasks"
    /\ call.prior > 0

\* The lists during and after a requeue_orphaned_tasks call, against the lists
\* it found: the entries counted so far are the tail of the processing queue,
\* in their order, at the insertion end of the pending queue; at the return
\* the processing queue is empty and the count is the number of its entries.
C5_Moved ==
    call.op = "requeue_orphaned_tasks" =>
      LET w == call.worker
          src == ListAt(call.before, processing_queue(w))
          n == Len(src)
          moved == IF Idle THEN recovered[2] ELSE requeued
      IN  /\ moved \in 0 .. n
          /\ Idle => recovered = <<w, n>>
          /\ Processing(w) = SubSeq(src, 1, n - moved)
          /\ Pending = SubSeq(src, n - moved + 1, n) \o call.before[PENDING_QUEUE]
          /\ \A v \in WorkerIds \ {w} : Processing(v) = call.before[processing_queue(v)]

\* C5: requeue_orphaned_tasks(workerId) returns, having moved the entries one
\* step at a time from the tail of the processing queue to the insertion end
\* of the pending queue until the processing queue was empty, and the count it
\* returns is the number of entries moved.
C5_RequeueTerminates == []C5_Moved /\ (~Idle ~> Idle)

\* C5's case: a call has returned after moving two different entries.
C5_Witness ==
    /\ Idle
    /\ call.op = "requeue_orphaned_tasks"
    /\ recovered[2] >= 2
    /\ Pending[1] # Pending[2]

\* C7: is_worker_alive(workerId) is true exactly while the time since the
\* latest set_heartbeat(workerId, ttl) is less than that ttl, false after it
\* and false with no call at all, whatever the number of calls before.
C7_AliveWhileWithinTtl ==
    \A w \in WorkerIds :
        is_worker_alive(expiry, w) <=> (hbSince[w] # Never /\ hbSince[w] < hbTtl[w])

\* C7's case: a second call, with another ttl than the time the first had
\* left, and time passing after it; another worker's key has run out.
C7_Witness ==
    \E w, v \in WorkerIds :
        /\ hbCalls[w] >= 2
        /\ hbTtl[w] = MaxTtl
        /\ hbSince[w] = 1
        /\ is_worker_alive(expiry, w)
        /\ hbCalls[v] >= 1
        /\ ~is_worker_alive(expiry, v)

\* C11: fetch_task(workerId, timeout) with the pending queue empty for the
\* whole timeout returns None and leaves every queue as it was; with an entry
\* there it returns a task, having moved exactly that one entry from the
\* pending queue into workerId's processing queue.
C11_FetchTask ==
    [][\A w \in WorkerIds :
         call_fetch_task(w) =>
           IF Pending = <<>>
           THEN /\ call'.task = NoTask
                /\ lists' = lists
           ELSE /\ call'.task # NoTask
                /\ to_json(call'.task) \in {Pending[i] : i \in 1 .. Len(Pending)}
                /\ Len(Pending') = Len(Pending) - 1
                /\ Count(Pending', to_json(call'.task)) = Count(Pending, to_json(call'.task)) - 1
                /\ Len(Processing(w)') = Len(Processing(w)) + 1
                /\ Count(Processing(w)', to_json(call'.task))
                     = Count(Processing(w), to_json(call'.task)) + 1
                /\ \A v \in WorkerIds \ {w} : Processing(v)' = Processing(v)]_vars

\* C11's case: a fetch_task call found nothing pending, while a processing
\* queue held entries, and returned None.
C11_Witness ==
    /\ call.op = "fetch_task"
    /\ call.task = NoTask
    /\ Pending = <<>>
    /\ \E w \in WorkerIds : Processing(w) # <<>>
    /\ lists = call.before

\* C12: of two submitted tasks that no recovery sweep moved back, the one
\* submitted later is out of the pending queue (fetched, by whichever worker)
\* only when the one submitted earlier is.
C12_Fifo ==
    \A i, j \in 1 .. sent :
        (/\ i < j
         /\ i \notin swept
         /\ j \notin swept
         /\ Count(Pending, Submitted(j)) = 0)
        => Count(Pending, Submitted(i)) = 0

\* C12's case: two tasks were pending together and were fetched by two
\* workers, with no sweep moving either.
C12_Witness ==
    /\ sent >= 2
    /\ swept = {}
    /\ \E w, v \in WorkerIds :
          /\ w # v
          /\ up[w]
          /\ up[v]
          /\ task[w] = NewTask(0)
          /\ task[v] = NewTask(1)
          /\ tTimer[w] < tTimer[v]

\* C13: whenever the monitor moves an entry from a worker's processing queue
\* to the pending queue, that worker's liveness key is absent: no task held
\* by a worker whose liveness key is present is moved back.
C13_SweepMovesOnlyOrphans ==
    [][(requeue_orphaned_tasks /\ lists' # lists)
         => ~is_worker_alive(expiry, Head(active))]_vars

\* The process of w is past the first set_heartbeat of its heartbeat loop and
\* the loop is still running.
Beating(w) ==
    /\ up[w]
    /\ running[w]
    /\ hbPc[w] = "loop"
    /\ tPc[w] # "new"

\* C14: while the loops of a worker are running, the time since its last
\* set_heartbeat is at most the tick interval plus one fetch timeout, which
\* is less than the TTL, and is_worker_alive is true for it from its first
\* heartbeat on.
C14_RunningWorkerAlive ==
    \A w \in WorkerIds :
        Beating(w) =>
          /\ hbSince[w] # Never
          /\ hbSince[w] <= HEARTBEAT_INTERVAL + FETCH_TIMEOUT
          /\ HEARTBEAT_INTERVAL + FETCH_TIMEOUT < HEARTBEAT_TTL
          /\ is_worker_alive(expiry, w)

\* C14's case: a blocking fetch has held the heartbeat loop back for a whole
\* fetch timeout beyond its tick.
C14_Witness ==
    \E w \in WorkerIds :
        /\ Beating(w)
        /\ tPc[w] = "blocked"
        /\ hbTimer[w] = 0
        /\ hbSince[w] = HEARTBEAT_INTERVAL + FETCH_TIMEOUT

\* The process of w has been told to stop and has not ended yet.
Stopping(w) == up[w] /\ ~running[w]

\* What a stopping worker does: it refreshes its liveness key no more, starts
\* no fetch, and leaves the execution of a task it holds only when the
\* execution is over, by complete_task and its "Task done" record.
C15_StoppedSteps ==
    \A w \in WorkerIds :
        Stopping(w) =>
          /\ up'[w] => ~running'[w]
          /\ expiry'[heartbeat_key(w)] <= expiry[heartbeat_key(w)]
          /\ hbCalls'[w] = hbCalls[w]
          /\ tPc[w] \notin {"blocked", "exec"} => tPc'[w] \notin {"blocked", "exec"}
          /\ (tPc[w] = "exec" /\ tPc'[w] # "exec") =>
                /\ tTimer[w] = 0
                /\ doneLog'[task[w].task_id] = doneLog[task[w].task_id] + 1
                /\ Count(Processing(w)', to_json(task[w])) = 0

\* C15: Worker.stop only keeps new iterations from starting: the task in
\* hand is executed to the end and acknowledged, no fetch_task or
\* set_heartbeat call starts after the iteration in progress, and both loops
\* end.
C15_StopEndsLoops ==
    /\ [][C15_StoppedSteps]_vars
    /\ \A w \in WorkerIds : Stopping(w) ~> ~up[w]

\* C15's case: the worker was told to stop with a task in hand; its heartbeat
\* loop has ended and the execution has run to its end.
C15_Witness ==
    \E w \in WorkerIds :
        /\ Stopping(w)
        /\ hbPc[w] = "done"
        /\ tPc[w] = "exec"
        /\ tTimer[w] = 0
        /\ Count(Processing(w), to_json(task[w])) = 1

\* C16: a step of requeue_orphaned_tasks(w) changes no processing queue but
\* w's, and no liveness key; complete_task(w, task) changes no queue but w's
\* processing queue, and no liveness key.  (The entry that RPOPLPUSH pushes
\* while another worker waits in BLMOVE is handed to that worker's fetch at
\* once: that is the other worker's own fetch_task.)
C16_Isolation ==
    [][/\ requeue_orphaned_tasks =>
            /\ expiry' = expiry
            /\ \A v \in WorkerIds \ {Head(active)} :
                  \/ Processing(v)' = Processing(v)
                  \/ /\ blocked # <<>>
                     /\ v = Head(blocked)
                     /\ reply'[v] # NoReply
                     /\ Processing(v)' = <<reply'[v]>> \o Processing(v)
                     /\ Pending' = Pending
       /\ \A w \in WorkerIds :
            complete_task(w) =>
              /\ expiry' = expiry
              /\ Pending' = Pending
              /\ \A v \in WorkerIds \ {w} : Processing(v)' = Processing(v)]_vars

\* C16's case: a worker has acknowledged a task that a sweep had moved and
\* that another worker now holds; the other worker's queue still has it.
C16_Witness ==
    \E w, v \in WorkerIds : \E i \in 1 .. sent :
        /\ w # v
        /\ up[w]
        /\ task[w] = NoTask
        /\ completed[i] = 1
        /\ removed[i] = 0
        /\ i \in swept
        /\ up[v]
        /\ task[v] = NewTask(i - 1)
        /\ Count(Processing(v), Submitted(i)) = 1

\* C17: a task left in the processing queue of a worker process that was
\* killed is eventually moved back to the pending queue by the monitor, also
\* when a new process is started under the same identity.
C17_CrashedTaskRecovered ==
    \A w \in WorkerIds : \A i \in TaskIds :
        [](( /\ ~up[w]
             /\ Count(Processing(w), Submitted(i)) > 0)
           => <>(i \in swept /\ Count(Processing(w), Submitted(i)) = 0))

\* The process of w has called fetch_task, or holds an entry it fetched.
Fetching(w) ==
    /\ up[w]
    /\ \/ tPc[w] \in {"blocked", "exec", "idle"}
       \/ task[w] # NoTask
       \/ reply[w] # NoReply

\* C18: a worker process that has called fetch_task, and so any process with
\* an entry in its processing queue that it fetched itself, has called
\* set_heartbeat since it was started.
C18_HeartbeatBeforeFetch ==
    \A w \in WorkerIds : Fetching(w) => beat[w] /\ hbSince[w] # Never

\* C18's case: a process started under an identity whose earlier process was
\* killed holds a task it fetched, having set the liveness key once.
C18_Witness ==
    \E w \in WorkerIds :
        /\ starts = MaxStarts
        /\ up[w]
        /\ \A v \in WorkerIds \ {w} : hbSince[v] = Never
        /\ task[w] # NoTask
        /\ Head(Processing(w)) = to_json(task[w])
        /\ hbSince[w] = 0

\* The entries of a list from its RIGHT end to its LEFT end: for the pending
\* queue the order in which fetches will take them, for a processing queue
\* the order in which its worker fetched them.
FetchOrder(q) == [i \in 1 .. Len(q) |-> q[Len(q) + 1 - i]]

\* A fetch takes the entry at the RIGHT end of the pending queue and puts it
\* at the LEFT end of the worker's processing queue.
C19_FetchStep ==
    \A w \in WorkerIds :
        (call_fetch_task(w) /\ Pending # <<>>) =>
          /\ FetchOrder(Pending) = <<to_json(call'.task)>> \o FetchOrder(Pending')
          /\ FetchOrder(Processing(w)') = FetchOrder(Processing(w)) \o <<to_json(call'.task)>>

\* When requeue_orphaned_tasks(w) has returned, fetches take the entries that
\* were pending before the call first, and then the entries of w in the
\* order in which w had fetched them.
C19_Requeued ==
    (Idle /\ call.op = "requeue_orphaned_tasks") =>
      FetchOrder(Pending) =
        FetchOrder(call.before[PENDING_QUEUE])
          \o FetchOrder(ListAt(call.before, processing_queue(call.worker)))

\* C19: a recovery sweep keeps the order: the entries it moves come behind
\* every entry already pending, and are fetched again in the order in which
\* the worker fetched them.
C19_SweepKeepsOrder == []C19_Requeued /\ [][C19_FetchStep]_vars

\* C19's case: a call has moved two different entries behind an entry that
\* was pending already.
C19_Witness ==
    /\ Idle
    /\ call.op = "requeue_orphaned_tasks"
    /\ recovered[2] >= 2
    /\ call.before[PENDING_QUEUE] # <<>>
    /\ Pending[1] # Pending[2]
    /\ Len(Pending) = recovered[2] + Len(call.before[PENDING_QUEUE])

\* The i-th task has been removed by a complete_task call and is in no queue.
Done(i) == removed[i] >= 1 /\ Occurrences(ListKeys, Submitted(i)) = 0

\* From some moment on a worker process is always running.
WorkerKeepsRunning == <>[](\E w \in WorkerIds : up[w])

\* C20: with the monitor running and a worker that keeps running, every
\* submitted task is eventually executed and removed from the queues by
\* complete_task; and a task leaves the queues in no other way.
C20_AtLeastOnce ==
    /\ [](\A i \in 1 .. sent : Occurrences(ListKeys, Submitted(i)) = 0 => removed[i] >= 1)
    /\ WorkerKeepsRunning => \A i \in TaskIds : [](i <= sent => <>Done(i))

====
